---- MODULE Spec2Model ----
(***************************************************************************)
(* Model of the dbtlearn Snowflake importer: the account-identifier        *)
(* normalizer and validator (core/snowflake.py), the SQL command block     *)
(* extractor (streamlit_app.py, get_sql_commands), the cached key          *)
(* generator (core/keys.py) and the wizard sessions that use them          *)
(* (streamlit_app.py, main).                                               *)
(*                                                                         *)
(* Text is modelled as a sequence of one-character strings.                *)
(***************************************************************************)
EXTENDS Integers, Sequences, FiniteSets, TLC

VARIABLES
    acctRaw,      \* the parts the raw account input is made of
    acctPc,       \* "input" | "extracted" | "validated"
    acctHost,     \* result of extract_snowflake_account(raw input)
    acctValid     \* result of is_valid_snowflake_account

acctVars == <<acctRaw, acctPc, acctHost, acctValid>>

VARIABLES
    sqlDoc,       \* the markdown document, as the names of its segments
    sqlKey,       \* the public_key argument of get_sql_commands
    sqlPc,        \* "ready" | "done"
    sqlResult     \* the ordered map returned by get_sql_commands

sqlVars == <<sqlDoc, sqlKey, sqlPc, sqlResult>>

VARIABLES
    ss,           \* st.session_state of each session, and the page it shows
    widget,       \* the value of the account text input of each session
    keyCache,     \* the st.cache_data cache of generate_keys
    keysMade,     \* number of RSA key pairs generated by the process
    run           \* the latest script run: what it showed and what it
                  \* did to the database

wizVars == <<ss, widget, keyCache, keysMade, run>>

VARIABLES
    keyCall       \* the last direct call of generate_keys and what it returned

keyVars == <<keyCall>>

VARIABLES
    db            \* how the Snowflake database answers the calls of a setup

dbVars == <<db>>

vars == <<acctRaw, acctPc, acctHost, acctValid,
          sqlDoc, sqlKey, sqlPc, sqlResult,
          ss, widget, keyCache, keysMade, run, keyCall, db>>

----------------------------------------------------------------------------
(* Bounds *)

\* number of pieces the body of an account input is made of
MaxParts == 3

\* number of segments a markdown document is made of
MaxSegs == 3

\* number of RSA key pairs the process generates
MaxKeys == 3

----------------------------------------------------------------------------
(* Generic text helpers *)

\* Python's None, as a value that can be compared with any text
None == <<"<None>">>

MaxOf(S) == CHOOSE x \in S : \A y \in S : y <= x

MinOf(S) == CHOOSE x \in S : \A y \in S : x <= y

RECURSIVE Concat(_)
Concat(parts) ==
    IF parts = <<>> THEN <<>> ELSE Head(parts) \o Concat(Tail(parts))

\* str.startswith
StartsWith(s, p) == Len(p) <= Len(s) /\ SubSeq(s, 1, Len(p)) = p

\* str.endswith
EndsWith(s, p) ==
    Len(p) <= Len(s) /\ SubSeq(s, Len(s) - Len(p) + 1, Len(s)) = p

\* p in s
Contains(s, p) ==
    \E i \in 0..(Len(s) - Len(p)) : SubSeq(s, i + 1, i + Len(p)) = p

\* the characters str.strip() removes
Whitespace == {" ", "\t", "\n", "\r", "\f"}

\* str.strip(chars)
StripChars(s, cs) ==
    LET keep == {i \in 1..Len(s) : s[i] \notin cs}
    IN  IF keep = {} THEN <<>> ELSE SubSeq(s, MinOf(keep), MaxOf(keep))

\* str.strip()
Strip(s) == StripChars(s, Whitespace)

----------------------------------------------------------------------------
(* Regular expressions, matched the way Python's re module matches them.   *)
(* Ends(r, s, i) is the set of offsets at which a match of r that starts   *)
(* at offset i of s can end.                                               *)

RStr(w) == [t |-> "str", w |-> w]
RCls(cs) == [t |-> "cls", cs |-> cs]
RNot(cs) == [t |-> "not", cs |-> cs]
RSeq(a, b) == [t |-> "seq", a |-> a, b |-> b]
RAlt(a, b) == [t |-> "alt", a |-> a, b |-> b]
ROpt(a) == [t |-> "opt", a |-> a]
RStar(a) == [t |-> "star", a |-> a]
RPlus(a) == [t |-> "plus", a |-> a]
RBol == [t |-> "bol"]
REol == [t |-> "eol"]
\* '.' matches any character except a newline
RDot == RNot({"\n"})

RECURSIVE Ends(_, _, _)
Ends(r, s, i) ==
    CASE r.t = "str" ->
            IF StartsWith(SubSeq(s, i + 1, Len(s)), r.w)
            THEN {i + Len(r.w)} ELSE {}
      [] r.t = "cls" ->
            IF i < Len(s) /\ s[i + 1] \in r.cs THEN {i + 1} ELSE {}
      [] r.t = "not" ->
            IF i < Len(s) /\ s[i + 1] \notin r.cs THEN {i + 1} ELSE {}
      [] r.t = "seq" ->
            UNION {Ends(r.b, s, j) : j \in Ends(r.a, s, i)}
      [] r.t = "alt" ->
            Ends(r.a, s, i) \cup Ends(r.b, s, i)
      [] r.t = "opt" ->
            {i} \cup Ends(r.a, s, i)
      [] r.t = "star" ->
            {i} \cup UNION {Ends(r, s, j) : j \in Ends(r.a, s, i) \ {i}}
      [] r.t = "plus" ->
            UNION {Ends(RStar(r.a), s, j) : j \in Ends(r.a, s, i)}
      [] r.t = "bol" ->
            IF i = 0 THEN {i} ELSE {}
      [] r.t = "eol" ->
            \* '$': the end of the string, or just before a newline that
            \* is the last character of the string
            IF i = Len(s) \/ (i = Len(s) - 1 /\ s[Len(s)] = "\n")
            THEN {i} ELSE {}

----------------------------------------------------------------------------
(* core/snowflake.py *)

\* [a-zA-Z0-9]
Alnum ==
    {"a", "b", "c", "d", "e", "f", "g", "h", "i", "j", "k", "l", "m", "n",
     "o", "p", "q", "r", "s", "t", "u", "v", "w", "x", "y", "z", "A", "B",
     "C", "D", "E", "F", "G", "H", "I", "J", "K", "L", "M", "N", "O", "P",
     "Q", "R", "S", "T", "U", "V", "W", "X", "Y", "Z", "0", "1", "2", "3",
     "4", "5", "6", "7", "8", "9"}

\* [a-zA-Z0-9-]
AlnumHyphen == Alnum \cup {"-"}

HttpScheme == <<"h", "t", "t", "p">>
HttpsScheme == <<"h", "t", "t", "p", "s">>
SnowflakeScheme == <<"s", "n", "o", "w", "f", "l", "a", "k", "e">>

\* the text ".snowflakecomputing.com"
SnowflakeDomain ==
    <<".", "s", "n", "o", "w", "f", "l", "a", "k", "e", "c", "o", "m", "p",
      "u", "t", "i", "n", "g", ".", "c", "o", "m">>

\* (?:https?|snowflake)://
UrlSchemeRe ==
    RSeq(RAlt(RSeq(RStr(HttpScheme), ROpt(RStr(<<"s">>))),
              RStr(SnowflakeScheme)),
         RStr(<<":", "/", "/">>))

\* [^/]+
UrlHostRe == RPlus(RNot({"/"}))

\* \.snowflakecomputing\.com$
DomainTailRe == RSeq(RStr(SnowflakeDomain), REol)

\* [a-zA-Z0-9]+(?:-[a-zA-Z0-9]+)?(?:\.[a-zA-Z0-9-]+)*
IdentifierRe ==
    RSeq(RPlus(RCls(Alnum)),
         RSeq(ROpt(RSeq(RStr(<<"-">>), RPlus(RCls(Alnum)))),
              RStar(RSeq(RStr(<<".">>), RPlus(RCls(AlnumHyphen))))))

\* the group of the pattern in extract_snowflake_account:
\* [a-zA-Z0-9]+(?:-[a-zA-Z0-9]+)?(?:\.[a-zA-Z0-9-]+)*(?:\.aws)?
AccountGroupRe ==
    RSeq(IdentifierRe, ROpt(RStr(<<".", "a", "w", "s">>)))

\* the pattern of the validator without the dot-separated segments
ValidPatternNoSegments ==
    RSeq(RBol,
         RSeq(RSeq(RPlus(RCls(Alnum)),
                   ROpt(RSeq(RStr(<<"-">>), RPlus(RCls(Alnum))))),
              REol))

\* ^[a-zA-Z0-9]+(?:-[a-zA-Z0-9]+)?(?:\.[a-zA-Z0-9-]+)*$
ValidPatternRe == RSeq(RBol, RSeq(IdentifierRe, REol))

\* re.search(r"(?:https?|snowflake)://([^/]+)", t): the offsets where the
\* leftmost match's group 1 starts and ends, or <<>> when nothing matches
UrlSearch(t) ==
    LET hostStarts(i) == {j \in Ends(UrlSchemeRe, t, i) :
                              Ends(UrlHostRe, t, j) # {}}
        starts == {i \in 0..Len(t) : hostStarts(i) # {}}
    IN  IF starts = {} THEN <<>>
        ELSE LET gs == MinOf(hostStarts(MinOf(starts)))
             IN  <<gs, MaxOf(Ends(UrlHostRe, t, gs))>>

\* DomainMatch with the group written as ([^.]+): a single label
DomainMatchOneLabel(t) ==
    {j \in Ends(RSeq(RBol, RPlus(RNot({"."}))), t, 0) :
         Ends(DomainTailRe, t, j) # {}}

\* re.match(r"^(.+)\.snowflakecomputing\.com$", t): the offsets at which
\* group 1 can end; the greedy '.+' takes the largest
DomainMatch(t) ==
    {j \in Ends(RSeq(RBol, RPlus(RDot)), t, 0) :
         Ends(DomainTailRe, t, j) # {}}

\* AccountMatch with the group closed before the dot-separated segments
AccountMatchShortGroup(t) ==
    {j \in Ends(RSeq(RBol, RSeq(RPlus(RCls(Alnum)),
                     ROpt(RSeq(RStr(<<"-">>), RPlus(RCls(Alnum)))))), t, 0) :
         Ends(RSeq(RStar(RSeq(RStr(<<".">>), RPlus(RCls(AlnumHyphen)))),
                   REol), t, j) # {}}

\* re.match of the account pattern: the offsets at which group 1 can end
AccountMatch(t) ==
    {j \in Ends(RSeq(RBol, AccountGroupRe), t, 0) : Ends(REol, t, j) # {}}

\* HostText with only http:// and https:// taken as URL prefixes
HostTextHttpOnly(stripped) ==
    LET url_match == UrlSearch(stripped)
    IN  IF (\/ StartsWith(stripped, HttpScheme \o <<":", "/", "/">>)
            \/ StartsWith(stripped, HttpsScheme \o <<":", "/", "/">>))
           /\ url_match # <<>>
        THEN SubSeq(stripped, url_match[1] + 1, url_match[2])
        ELSE stripped

\* lines 24-27: the host of a URL input, any other input as it is
HostText(stripped) ==
    LET url_match == UrlSearch(stripped)
    IN  IF (\/ StartsWith(stripped, HttpScheme \o <<":", "/", "/">>)
            \/ StartsWith(stripped, HttpsScheme \o <<":", "/", "/">>)
            \/ StartsWith(stripped, SnowflakeScheme \o <<":", "/", "/">>))
           /\ url_match # <<>>
        THEN SubSeq(stripped, url_match[1] + 1, url_match[2])
        ELSE stripped

\* extract_snowflake_account with the service-domain rule applied before
\* the host of a URL is taken
extract_domain_before_url(raw_input) ==
    IF raw_input = None \/ raw_input = <<>> \/ Strip(raw_input) = <<>>
    THEN raw_input
    ELSE
      LET stripped == Strip(raw_input)
          input_text == HostText(stripped)
      IN  IF DomainMatch(stripped) # {}
          THEN SubSeq(stripped, 1, MaxOf(DomainMatch(stripped)))
          ELSE IF AccountMatch(input_text) # {}
               THEN SubSeq(input_text, 1, MaxOf(AccountMatch(input_text)))
               ELSE raw_input

extract_snowflake_account(raw_input) ==
    IF raw_input = None \/ raw_input = <<>> \/ Strip(raw_input) = <<>>
    THEN raw_input
    ELSE
      LET input_text == HostText(Strip(raw_input))
      IN  IF DomainMatch(input_text) # {}
          THEN SubSeq(input_text, 1, MaxOf(DomainMatch(input_text)))
          ELSE IF AccountMatch(input_text) # {}
               THEN SubSeq(input_text, 1, MaxOf(AccountMatch(input_text)))
               ELSE raw_input

is_valid_snowflake_account(account) ==
    IF account = None \/ account = <<>> \/ Strip(account) = <<>>
    THEN FALSE
    ELSE Ends(ValidPatternRe, account, 0) # {}

----------------------------------------------------------------------------
(* streamlit_app.py, get_sql_commands *)

\* str.split(sep) for a one-character separator
RECURSIVE Split(_, _)
Split(s, sep) ==
    LET idx == {i \in 1..Len(s) : s[i] = sep}
    IN  IF idx = {} THEN <<s>>
        ELSE <<SubSeq(s, 1, MinOf(idx) - 1)>>
             \o Split(SubSeq(s, MinOf(idx) + 1, Len(s)), sep)

\* sep.join(parts)
RECURSIVE Join(_, _)
Join(parts, sep) ==
    IF parts = <<>> THEN <<>>
    ELSE IF Len(parts) = 1 THEN parts[1]
    ELSE parts[1] \o sep \o Join(Tail(parts), sep)

\* str.replace(old, new) with only the first occurrence replaced
ReplaceFirst(s, old, new) ==
    LET at == {i \in 0..(Len(s) - Len(old)) :
                   SubSeq(s, i + 1, i + Len(old)) = old}
    IN  IF at = {} THEN s
        ELSE SubSeq(s, 1, MinOf(at)) \o new
             \o SubSeq(s, MinOf(at) + Len(old) + 1, Len(s))

\* str.replace(old, new): every occurrence, scanned from the left
RECURSIVE Replace(_, _, _)
Replace(s, old, new) ==
    LET at == {i \in 0..(Len(s) - Len(old)) :
                   SubSeq(s, i + 1, i + Len(old)) = old}
    IN  IF at = {} THEN s
        ELSE SubSeq(s, 1, MinOf(at)) \o new
             \o Replace(SubSeq(s, MinOf(at) + Len(old) + 1, Len(s)),
                        old, new)

\* the placeholder token "<<Add Your Public Key File's content here>>"
placeholder ==
    <<"<", "<", "A", "d", "d", " ", "Y", "o", "u", "r", " ", "P", "u", "b",
      "l", "i", "c", " ", "K", "e", "y", " ", "F", "i", "l", "e", "'", "s",
      " ", "c", "o", "n", "t", "e", "n", "t", " ", "h", "e", "r", "e", ">",
      ">">>

\* the backquote character, which a TLA+ string cannot hold
Tick == "tick"

\* the code fence: three backquotes
Fence == <<Tick, Tick, Tick>>

\* the fence that opens a named block: three backquotes and "sql {#"
NamedFence == Fence \o <<"s", "q", "l", " ", "{", "#">>

\* the test for a named block written for any fence followed by "sql"
OpensAnySqlFence(line) == StartsWith(line, Fence \o <<"s", "q", "l">>)

\* line.startswith(NamedFence)
OpensNamedSql(line) == StartsWith(line, NamedFence)

\* line.split("{#")[1].split("}")[0]
SectionName(line) ==
    LET at == {i \in 0..(Len(line) - 2) :
                   SubSeq(line, i + 1, i + 2) = <<"{", "#">>}
        rest == SubSeq(line, MinOf(at) + 3, Len(line))
    IN  Split(rest, "}")[1]

\* the comment test with leading whitespace ignored
IsCommentLineTrimmed(line) == StartsWith(Strip(line), <<"-", "-">>)

\* line.strip() == "" or line.startswith("--"), without the comment test
IsSkippedBlankOnly(line) == Strip(line) = <<>>

\* line.strip() == "" or line.startswith("--")
IsSkipped(line) == Strip(line) = <<>> \/ StartsWith(line, <<"-", "-">>)

\* Substituted with the test written as "public_key is not None"
SubstitutedUnlessNone(line, public_key) ==
    IF public_key # None /\ Contains(line, placeholder)
    THEN Replace(line, placeholder, public_key)
    ELSE line

\* the line as it is appended: the placeholder replaced when a public key
\* is given
Substituted(line, public_key) ==
    IF public_key # None /\ public_key # <<>> /\ Contains(line, placeholder)
    THEN Replace(line, placeholder, public_key)
    ELSE line

\* commands[current_section] += text, the entry created at the end of the
\* ordered map when the section is not in it yet
AddToSection(commands, section, text) ==
    IF \E n \in 1..Len(commands) : commands[n].k = section
    THEN [n \in 1..Len(commands) |->
             IF commands[n].k = section
             THEN [k |-> section, v |-> commands[n].v \o text]
             ELSE commands[n]]
    ELSE Append(commands, [k |-> section, v |-> text])

\* ScanLine with the skip and fence tests applied again to the lines of the
\* substituted text
ScanLineRescans(st, line, public_key) ==
    IF st.in_named_sql
    THEN IF StartsWith(line, Fence)
         THEN [st EXCEPT !.in_named_sql = FALSE]
         ELSE IF IsSkipped(line)
              THEN st
              ELSE [st EXCEPT !.commands =
                        AddToSection(
                            st.commands, st.current_section,
                            Join(SelectSeq(
                                     Split(Substituted(line, public_key),
                                           "\n"),
                                     LAMBDA l : /\ ~IsSkipped(l)
                                                /\ ~StartsWith(l, Fence)),
                                 <<"\n">>)
                            \o <<"\n">>)]
    ELSE IF OpensNamedSql(line)
         THEN [st EXCEPT !.in_named_sql = TRUE,
                         !.current_section = SectionName(line)]
         ELSE st

\* one iteration of the loop over the lines
ScanLine(st, line, public_key) ==
    IF st.in_named_sql
    THEN IF StartsWith(line, Fence)
         THEN [st EXCEPT !.in_named_sql = FALSE]
         ELSE IF IsSkipped(line)
              THEN st
              ELSE [st EXCEPT !.commands =
                        AddToSection(st.commands, st.current_section,
                                     Substituted(line, public_key)
                                     \o <<"\n">>)]
    ELSE IF OpensNamedSql(line)
         THEN [st EXCEPT !.in_named_sql = TRUE,
                         !.current_section = SectionName(line)]
         ELSE st

RECURSIVE ScanLines(_, _, _, _)
ScanLines(st, lines, i, public_key) ==
    IF i > Len(lines) THEN st
    ELSE ScanLines(ScanLine(st, lines[i], public_key), lines, i + 1,
                   public_key)

\* the statements of a buffer with whitespace-only fragments kept
StatementsUnfiltered(v) ==
    LET cs == Split(v, ";")
    IN  [n \in 1..Len(cs) |-> StripChars(cs[n], {"\n"})]

\* [c.strip("\n") for c in v.split(";") if c.strip() != ""]
Statements(v) ==
    LET cs == Split(v, ";")
        kept == {n \in 1..Len(cs) : Strip(cs[n]) # <<>>}
        nth(m) == CHOOSE n \in kept :
                      Cardinality({x \in kept : x < n}) = m - 1
    IN  [m \in 1..Cardinality(kept) |-> StripChars(cs[nth(m)], {"\n"})]

\* the ordered map returned: a sequence of entries [k, v], k the section
\* name and v the list of its statements
get_sql_commands(md, public_key) ==
    LET st == ScanLines([commands |-> <<>>, current_section |-> None,
                         in_named_sql |-> FALSE],
                        Split(md, "\n"), 1, public_key)
    IN  [n \in 1..Len(st.commands) |->
            [k |-> st.commands[n].k, v |-> Statements(st.commands[n].v)]]

----------------------------------------------------------------------------
(* core/keys.py, generate_keys, and the wizard sessions of main            *)

Sessions == {"s1", "s2"}

\* the passphrases generate_keys is called with: "q" by the wizard, the
\* empty and other passphrases by direct calls
Passphrases == {"q", "", "simple", "c!#", "ue"}

\* passphrase.encode("utf-8"); "ue" stands for a u with diaeresis, which
\* is encoded as two bytes
Utf8(passphrase) ==
    CASE passphrase = "" -> <<>>
      [] passphrase = "q" -> <<"q">>
      [] passphrase = "simple" -> <<"s", "i", "m", "p", "l", "e">>
      [] passphrase = "c!#" -> <<"c", "!", "#">>
      [] passphrase = "ue" -> <<"0xC3", "0xBC">>

\* characters of the base64 alphabet, the only characters of the body of
\* a PEM text
B64 == <<"A", "n", "/", "+", "M", "0", "=">>

\* rsa.generate_private_key: the bytes of the private key of the id-th key
\* pair of the process, as base64 lines
KeyBytes(id) ==
    [n \in 1..(1 + (id % 2)) |->
        <<B64[(id % 7) + 1], B64[((id + n) % 7) + 1], "n">>]

\* private_key.public_key(): the public half of the key
PublicBytes(key) == <<key[1]>>

\* the character c moved k places along B64
Rotated(c, k) ==
    LET at == CHOOSE i \in 1..Len(B64) : B64[i] = c
    IN  B64[((at - 1 + k) % Len(B64)) + 1]

\* the private key encrypted under a password; the password-based cipher
\* is stood for by a rotation of every character by the password's length
Encrypted(key, password) ==
    [n \in 1..Len(key) |->
        [i \in 1..Len(key[n]) |-> Rotated(key[n][i], Len(password))]]

\* EncryptionAlgorithm without the case of the empty passphrase
EncryptionAlgorithmAlways(passphrase) ==
    [kind |-> "BestAvailableEncryption", password |-> Utf8(passphrase)]

\* serialization.NoEncryption() for the empty passphrase,
\* serialization.BestAvailableEncryption(passphrase.encode("utf-8"))
\* for any other
EncryptionAlgorithm(passphrase) ==
    IF passphrase = ""
    THEN [kind |-> "NoEncryption", password |-> <<>>]
    ELSE [kind |-> "BestAvailableEncryption",
          password |-> Utf8(passphrase)]

Dashes == <<"-", "-", "-", "-", "-">>

\* Encoding.PEM: the label between BEGIN and END lines, every line ended
\* by a newline
PemText(label, lines) ==
    Dashes \o <<"B", "E", "G", "I", "N", " ">> \o label \o Dashes
    \o <<"\n">>
    \o Concat([n \in 1..Len(lines) |-> lines[n] \o <<"\n">>])
    \o Dashes \o <<"E", "N", "D", " ">> \o label \o Dashes \o <<"\n">>

PrivateKeyLabel == <<"P", "R", "I", "V", "A", "T", "E", " ", "K", "E", "Y">>

EncryptedLabel == <<"E", "N", "C", "R", "Y", "P", "T", "E", "D", " ">>

PublicKeyLabel == <<"P", "U", "B", "L", "I", "C", " ", "K", "E", "Y">>

\* private_key.private_bytes(Encoding.PEM, PrivateFormat.PKCS8,
\* encryption_algorithm).decode("utf-8")
PrivateBytes(key, encryption_algorithm) ==
    IF encryption_algorithm.kind = "NoEncryption"
    THEN PemText(PrivateKeyLabel, key)
    ELSE PemText(EncryptedLabel \o PrivateKeyLabel,
                 Encrypted(key, encryption_algorithm.password))

\* public_key.public_bytes(Encoding.PEM,
\* PublicFormat.SubjectPublicKeyInfo).decode("utf-8")
PublicPem(key) == PemText(PublicKeyLabel, PublicBytes(key))

\* the escape written with a slash in place of the backslash
EscapedWithSlash(private_pem) == Replace(private_pem, <<"\n">>, <<"/", "n">>)

\* private_pem.replace("\n", "\\n")
Escaped(private_pem) == Replace(private_pem, <<"\n">>, <<"\\", "n">>)

\* no KeyPair: "keypair" not in st.session_state, or no cache entry
NoKey ==
    [id |-> 0, passphrase |-> "", private_key |-> <<>>,
     public_key |-> <<>>, private_key_pem_text |-> <<>>]

\* "snowflake_account" not in st.session_state
Unset == <<"<unset>">>

\* os.environ.get("SNOWFLAKE_ACCOUNT", "xxxxxx-xxxxxxxx")
env_account ==
    <<"x", "x", "x", "x", "x", "x", "-",
      "x", "x", "x", "x", "x", "x", "x", "x">>

\* what the user types into the account input: the default, and a host
\* name of the service with a space in its account
WizAccountInputs ==
    {env_account, <<"a", " ", "1">> \o SnowflakeDomain}

\* extract_snowflake_account of each text the account input can hold
hostname_of ==
    [raw \in WizAccountInputs |-> extract_snowflake_account(raw)]

\* the value st.query_params.get("course", "default") of a script run
CourseModes == {"default", "ceu"}

\* a session that does not exist
NoSession ==
    [live |-> FALSE, course_mode |-> "", step |-> 0, keypair |-> NoKey,
     snowflake_account |-> Unset, page |-> 0]

\* rsa.generate_private_key and the KeyPair built from it: a key pair
\* that no earlier call returned
FreshKeyPair(passphrase) ==
    LET key == KeyBytes(keysMade + 1)
        private_pem == PrivateBytes(key, EncryptionAlgorithm(passphrase))
    IN  [id |-> keysMade + 1,
         passphrase |-> passphrase,
         private_key |-> private_pem,
         public_key |-> PublicPem(key),
         private_key_pem_text |-> Escaped(private_pem)]

\* @st.cache_data generate_keys(passphrase): the cached KeyPair when the
\* cache has one for the passphrase, a fresh one otherwise
generate_keys(passphrase) ==
    IF keyCache[passphrase] # NoKey THEN keyCache[passphrase]
    ELSE FreshKeyPair(passphrase)

\* the cache and the key counter after the call generate_keys(passphrase)
KeysAfterGenerate(passphrase) ==
    IF keyCache[passphrase] # NoKey
    THEN UNCHANGED <<keyCache, keysMade>>
    ELSE /\ keysMade < MaxKeys
         /\ keyCache' = [keyCache EXCEPT ![passphrase] =
                             FreshKeyPair(passphrase)]
         /\ keysMade' = keysMade + 1

\* what the user types into the password input of step 2
Passwords == {"", "pw"}

\* the keys of sql_sections
sql_sections == {"snowflake_setup", "snowflake_import", "capstone_airstats"}

\* what get_sql_commands returns for course-resources.md: the sections of
\* the course, without or with a capstone section between them, a section
\* that sql_sections does not have, and no section at all
CourseCommands ==
    {<<[k |-> "snowflake_setup", v |-> <<"c1", "c2">>],
       [k |-> "snowflake_import", v |-> <<"c3">>]>>,
     <<[k |-> "snowflake_setup", v |-> <<"c1">>],
       [k |-> "capstone_airstats", v |-> <<"c0">>],
       [k |-> "snowflake_import", v |-> <<"c3">>]>>,
     <<[k |-> "other", v |-> <<"c6">>]>>,
     <<>>}

\* what get_sql_commands returns for capstone-resources.md
CapstoneCommands == <<[k |-> "capstone_airstats", v |-> <<"c4", "c5">>]>>

\* d[k] = v on an ordered map
SetEntry(commands, entry) ==
    IF \E n \in 1..Len(commands) : commands[n].k = entry.k
    THEN [n \in 1..Len(commands) |->
             IF commands[n].k = entry.k THEN entry ELSE commands[n]]
    ELSE Append(commands, entry)

\* sql_commands.update(capstone_commands)
RECURSIVE Updated(_, _)
Updated(commands, other) ==
    IF other = <<>> THEN commands
    ELSE Updated(SetEntry(commands, Head(other)), Tail(other))

\* lines 405-419: the commands of the course, updated with those of the
\* capstone in CEU mode when the capstone file exists
LoadCommands(course, is_ceu, capstone_exists) ==
    IF is_ceu /\ capstone_exists THEN Updated(course, CapstoneCommands)
    ELSE course

\* a call the setup makes: the phase of the run, the connection, the
\* operation and its argument
Op(ph, conn, op, arg) == [ph |-> ph, conn |-> conn, op |-> op, arg |-> arg]

\* the loop over the commands with one commit after the last command
CommandOpsOneCommit(commands) ==
    IF commands = <<>> THEN <<>> ELSE
    [m \in 1..(Len(commands) + 1) |->
        IF m <= Len(commands)
        THEN Op("execute", "admin", "execute", commands[m])
        ELSE Op("execute", "admin", "commit", commands[Len(commands)])]

\* lines 479-482: connection.execute(text(command)); connection.commit()
\* for each command of a section
CommandOps(commands) ==
    Concat([m \in 1..Len(commands) |->
               <<Op("execute", "admin", "execute", commands[m]),
                 Op("execute", "admin", "commit", commands[m])>>])

\* lines 472-482: a section is skipped when it is the capstone section and
\* the mode is not CEU; its title is looked up in sql_sections
SectionOps(entry, is_ceu) ==
    IF entry.k = "capstone_airstats" /\ ~is_ceu THEN <<>>
    ELSE <<Op("execute", "app", "section", entry.k)>> \o CommandOps(entry.v)

ExecuteOps(sql_commands, is_ceu) ==
    Concat([n \in 1..Len(sql_commands) |->
               SectionOps(sql_commands[n], is_ceu)])

tables_to_verify ==
    <<"AIRBNB.RAW.RAW_LISTINGS", "AIRBNB.RAW.RAW_HOSTS",
      "AIRBNB.RAW.RAW_REVIEWS">>

airstats_tables ==
    <<"AIRSTATS.RAW.AIRPORTS", "AIRSTATS.RAW.AIRPORT_COMMENTS",
      "AIRSTATS.RAW.RUNWAYS">>

\* SELECT COUNT(*) FROM table, and the count fetched
CountOps(tables) ==
    [n \in 1..Len(tables) |-> Op("verify_tables", "admin", "count", tables[n])]

\* lines 538-563: the connection of a user opened with the key pair, the
\* role, database and schema used, RAW_LISTINGS queried as dbt, and the
\* connection closed
UserOps(user, use_role, use_schema) ==
    <<Op("verify_users", user, "connect", user),
      Op("verify_users", user, "execute", use_role),
      Op("verify_users", user, "execute", "USE DATABASE AIRBNB"),
      Op("verify_users", user, "execute", use_schema)>>
    \o (IF user = "dbt"
        THEN <<Op("verify_users", user, "execute",
                  "SELECT * FROM RAW.RAW_LISTINGS"),
               Op("verify_users", user, "fetchone", "")>>
        ELSE <<>>)
    \o <<Op("verify_users", user, "close", ""),
         Op("verify_users", user, "dispose", "")>>

\* lines 423-596: the calls of a setup run in which nothing fails
SetupPlan(sql_commands, is_ceu) ==
    <<Op("connect", "admin", "connect", "admin")>>
    \o ExecuteOps(sql_commands, is_ceu)
    \o CountOps(tables_to_verify)
    \o (IF is_ceu THEN CountOps(airstats_tables) ELSE <<>>)
    \o UserOps("dbt", "USE ROLE TRANSFORM", "USE SCHEMA RAW")
    \o UserOps("preset", "USE ROLE REPORTER", "USE SCHEMA DEV")
    \o <<Op("finally", "admin", "close", ""),
         Op("finally", "admin", "dispose", "")>>

\* a database in which every call succeeds and every table has rows
Healthy == [conn |-> "", op |-> "", arg |-> "", how |-> "ok"]

\* the call the database does not answer well, and how: it raises, or
\* the table counted is empty
Broken(conn, op, arg, how) ==
    [conn |-> conn, op |-> op, arg |-> arg, how |-> how]

\* the databases a setup runs against: a healthy one, and one in which
\* one call raises or one table is empty
DbStates ==
    {Healthy,
     Broken("admin", "connect", "admin", "error"),
     Broken("admin", "execute", "c1", "error"),
     Broken("admin", "commit", "c3", "error"),
     Broken("admin", "execute", "c4", "error"),
     Broken("admin", "count", tables_to_verify[1], "zero"),
     Broken("admin", "count", tables_to_verify[3], "error"),
     Broken("admin", "count", airstats_tables[2], "zero"),
     Broken("dbt", "connect", "dbt", "error"),
     Broken("dbt", "fetchone", "", "error"),
     Broken("preset", "execute", "USE SCHEMA DEV", "error")}

\* no fault: every call of the run succeeds and every count is positive
NoFault == [at |-> 0, how |-> "ok"]

\* the run stops before it connects: no password was given
NoPassword == [at |-> 0, how |-> "no_password"]

\* where a run stops and why: a call that the database does not answer
\* well is reached, or a section is reached that sql_sections does not
\* have (a KeyError)
FaultOf(plan, database) ==
    LET unknown == {i \in 1..Len(plan) :
                        plan[i].op = "section"
                        /\ plan[i].arg \notin sql_sections}
        broken == {i \in 1..Len(plan) :
                       /\ plan[i].conn = database.conn
                       /\ plan[i].op = database.op
                       /\ plan[i].arg = database.arg}
        at == MinOf(unknown \cup broken \cup {Len(plan) + 1})
    IN  IF at > Len(plan) THEN NoFault
        ELSE IF at \in broken THEN [at |-> at, how |-> database.how]
        ELSE [at |-> at, how |-> "error"]

\* a call that was made and how it ended
Done(op, res) ==
    [conn |-> op.conn, op |-> op.op, arg |-> op.arg, res |-> res]

\* the connection was opened and has not been closed
IsOpen(log, conn) ==
    \E i \in 1..Len(log) :
        /\ log[i].conn = conn /\ log[i].op = "connect" /\ log[i].res = "ok"
        /\ \A j \in (i + 1)..Len(log) :
               ~(log[j].conn = conn /\ log[j].op = "close")

\* the finally blocks left out
ClosingNothing(log, conn) == <<>>

\* the finally blocks: connection.close() and engine.dispose() of a
\* connection that was opened
Closing(log, conn) ==
    IF IsOpen(log, conn)
    THEN <<Done(Op("finally", conn, "close", ""), "ok"),
           Done(Op("finally", conn, "dispose", ""), "ok")>>
    ELSE <<>>

\* the handler that shows nothing
ReportedNothing(log, ph, how) == <<>>

\* the error shown for a fault in a phase; the handler of the execution
\* phase reads the variable command, which is not bound before the first
\* command of the run
Reported(log, ph, how) ==
    IF /\ ph \in {"execute", "verify_tables"}
       /\ how = "error"
       /\ ~\E i \in 1..Len(log) : log[i].conn = "admin" /\ log[i].op = "execute"
    THEN <<Done(Op(ph, "app", "st.error", ph), "UnboundLocalError")>>
    ELSE <<Done(Op(ph, "app", "st.error", ph), "shown")>>

\* the calls a setup run makes, in order, when the database answers as
\* the fault says
SetupLog(plan, fault) ==
    IF fault.how = "no_password"
    THEN <<Done(Op("password", "app", "st.error", "password"), "shown")>>
    ELSE IF fault.at = 0
    THEN [i \in 1..Len(plan) |-> Done(plan[i], "ok")]
    ELSE LET tried == [i \in 1..fault.at |->
                          Done(plan[i],
                               IF i = fault.at THEN fault.how ELSE "ok")]
             closed == tried \o Closing(tried, "dbt")
                             \o Closing(tried, "preset")
             shown == closed \o Reported(tried, plan[fault.at].ph, fault.how)
         IN  shown \o Closing(shown, "admin")

\* snowflake_setup_complete: set after the last user is verified
snowflake_setup_complete(fault) == fault = NoFault

\* the step left as it is after a complete setup
StepAfterSetupStays(complete) == 2

\* the step set to 3 after every setup run
StepAfterSetupAlways(complete) == 3

\* lines 598-603: st.session_state.step = 3 when the setup is complete
StepAfterSetup(complete) == IF complete THEN 3 ELSE 2

\* no script run yet
NoRun ==
    [session |-> "", query |-> "", button |-> "", hello |-> "",
     account |-> Unset, commands |-> <<>>, fault |-> NoFault, log |-> <<>>]

SqlIdle ==
    /\ sqlDoc = <<>>
    /\ sqlKey = None
    /\ sqlPc = "idle"
    /\ sqlResult = <<>>

AcctIdle ==
    /\ acctRaw = [none |-> TRUE, scheme |-> <<>>, body |-> <<>>,
                  dom |-> <<>>, path |-> <<>>]
    /\ acctPc = "idle"
    /\ acctHost = None
    /\ acctValid = FALSE

WizIdle ==
    /\ ss = [s \in Sessions |-> NoSession]
    /\ widget = [s \in Sessions |-> env_account]
    /\ keyCache = [p \in Passphrases |-> NoKey]
    /\ keysMade = 0
    /\ run = NoRun

\* generate_keys has not been called directly
NoCall == [passphrase |-> "", result |-> NoKey]

KeyIdle == keyCall = NoCall

\* a database that answers every call
DbIdle == db = Healthy

WizInit ==
    /\ WizIdle
    /\ AcctIdle
    /\ SqlIdle
    /\ KeyIdle
    /\ db \in DbStates

\* is_ceu_mode taken from the query parameter of the script run
is_ceu_from_query(s, query) == query = "ceu"

\* is_ceu_mode = st.session_state.course_mode == "ceu"
is_ceu_mode(s, query) == ss[s].course_mode = "ceu"

\* the welcome text a script run shows: one on the landing page, none on
\* the other pages
Hello(page, is_ceu) ==
    IF page # 0 THEN ""
    ELSE IF is_ceu THEN "hello_msg_ceu" ELSE "hello_msg_default"

\* a script run of session s without a setup: the query parameter it was
\* started with, the key of the button whose click started it ("" when
\* it was not started by a click) and the welcome text it shows
PlainRun(s, query, button, page, is_ceu) ==
    [session |-> s, query |-> query, button |-> button,
     hello |-> Hello(page, is_ceu), account |-> Unset, commands |-> <<>>,
     fault |-> NoFault, log |-> <<>>]

\* the first script run of a session: course_mode and step are set and
\* the landing page is shown
Connect(s) ==
    /\ ~ss[s].live
    /\ \E query \in CourseModes :
           /\ ss' = [ss EXCEPT ![s] =
                         [live |-> TRUE, course_mode |-> query, step |-> 0,
                          keypair |-> NoKey, snowflake_account |-> Unset,
                          page |-> 0]]
           /\ run' = PlainRun(s, query, "", 0, is_ceu_mode(s, query)')
    /\ UNCHANGED <<widget, keyCache, keysMade, acctVars, sqlVars, keyVars, dbVars>>

\* "Start Setup Process" with step 1 shown without a key pair generated
ClickStartProcessNoKeys(s) ==
    /\ ss[s].live /\ ss[s].page = 0 /\ ss[s].step = 0
    /\ ss' = [ss EXCEPT ![s].step = 1, ![s].page = 1]
    /\ \E query \in CourseModes :
           run' = PlainRun(s, query, "btn_start_setup", 1,
                           is_ceu_mode(s, query))
    /\ UNCHANGED <<widget, keyCache, keysMade, acctVars, sqlVars, keyVars,
                   dbVars>>

\* "Start Setup Process" on the landing page: step = 1, and the rerun
\* shows step 1, where the key pair is generated when the session has none
ClickStartProcess(s) ==
    /\ ss[s].live /\ ss[s].page = 0 /\ ss[s].step = 0
    /\ IF ss[s].keypair = NoKey
       THEN /\ ss' = [ss EXCEPT ![s].step = 1, ![s].page = 1,
                                ![s].keypair = generate_keys("q")]
            /\ KeysAfterGenerate("q")
       ELSE /\ ss' = [ss EXCEPT ![s].step = 1, ![s].page = 1]
            /\ UNCHANGED <<keyCache, keysMade>>
    /\ \E query \in CourseModes :
           run' = PlainRun(s, query, "btn_start_setup", 1,
                           is_ceu_mode(s, query))
    /\ UNCHANGED <<widget, acctVars, sqlVars, keyVars, dbVars>>

\* "Back to Welcome" that also drops the key pair of the session
ClickBackToWelcomeResets(s) ==
    /\ ss[s].live /\ ss[s].page = 1 /\ ss[s].step = 1
    /\ ss' = [ss EXCEPT ![s].step = 0, ![s].page = 0, ![s].keypair = NoKey]
    /\ \E query \in CourseModes :
           run' = PlainRun(s, query, "btn_back_to_welcome", 0,
                           is_ceu_mode(s, query))
    /\ UNCHANGED <<widget, keyCache, keysMade, acctVars, sqlVars, keyVars, dbVars>>

\* "Back to Welcome" on step 1: step = 0 and the rerun shows the landing
\* page
ClickBackToWelcome(s) ==
    /\ ss[s].live /\ ss[s].page = 1 /\ ss[s].step = 1
    /\ ss' = [ss EXCEPT ![s].step = 0, ![s].page = 0]
    /\ \E query \in CourseModes :
           run' = PlainRun(s, query, "btn_back_to_welcome", 0,
                           is_ceu_mode(s, query))
    /\ UNCHANGED <<widget, keyCache, keysMade, acctVars, sqlVars, keyVars, dbVars>>

\* "Continue to Snowflake Setup" on step 1: step = 2, and the rerun shows
\* step 2, which stores the account extracted from the (new) text input
ClickContinue(s) ==
    /\ ss[s].live /\ ss[s].page = 1 /\ ss[s].step = 1
    /\ widget' = [widget EXCEPT ![s] = env_account]
    /\ ss' = [ss EXCEPT ![s].step = 2, ![s].page = 2,
                        ![s].snowflake_account =
                            hostname_of[env_account]]
    /\ \E query \in CourseModes :
           run' = PlainRun(s, query, "btn_continue_to_snowflake", 2,
                           is_ceu_mode(s, query))
    /\ UNCHANGED <<keyCache, keysMade, acctVars, sqlVars, keyVars, dbVars>>

\* the user changes the account input on step 2: the run stores the
\* extracted account
EditAccount(s) ==
    /\ ss[s].live /\ ss[s].page = 2 /\ ss[s].step = 2
    /\ \E raw \in WizAccountInputs \ {widget[s]} :
           /\ widget' = [widget EXCEPT ![s] = raw]
           /\ ss' = [ss EXCEPT ![s].snowflake_account =
                                   hostname_of[raw]]
    /\ \E query \in CourseModes :
           run' = PlainRun(s, query, "", 2, is_ceu_mode(s, query))
    /\ UNCHANGED <<keyCache, keysMade, acctVars, sqlVars, keyVars, dbVars>>

\* "Back to Access Keys Generation" on step 2: step = 1 and the rerun
\* shows step 1; the text input is not rendered and loses its value
ClickBackToKeys(s) ==
    /\ ss[s].live /\ ss[s].page = 2 /\ ss[s].step = 2
    /\ widget' = [widget EXCEPT ![s] = env_account]
    /\ IF ss[s].keypair = NoKey
       THEN /\ ss' = [ss EXCEPT ![s].step = 1, ![s].page = 1,
                                ![s].keypair = generate_keys("q")]
            /\ KeysAfterGenerate("q")
       ELSE /\ ss' = [ss EXCEPT ![s].step = 1, ![s].page = 1]
            /\ UNCHANGED <<keyCache, keysMade>>
    /\ \E query \in CourseModes :
           run' = PlainRun(s, query, "btn_back_to_keys", 1,
                           is_ceu_mode(s, query))
    /\ UNCHANGED <<acctVars, sqlVars, keyVars, dbVars>>

\* "Start Setup" on step 2 without a password: the run stores the
\* extracted account, shows an error and returns
StartSetupNoPassword(s, hostname, query) ==
    /\ ss' = [ss EXCEPT ![s].snowflake_account = hostname]
    /\ run' = [session |-> s, query |-> query,
               button |-> "btn_start_snowflake_setup", hello |-> "",
               account |-> hostname, commands |-> <<>>,
               fault |-> NoPassword, log |-> SetupLog(<<>>, NoPassword)]

\* "Start Setup" on step 2 with a password: the run stores the extracted
\* account, loads the commands and runs the setup against the database;
\* step becomes 3 when the setup is complete
StartSetupRun(s, hostname, query) ==
    \E course \in CourseCommands,
       capstone_exists \in
           (IF is_ceu_mode(s, query) THEN BOOLEAN ELSE {FALSE}) :
        \E sql_commands \in {LoadCommands(course, is_ceu_mode(s, query),
                                           capstone_exists)} :
            \E plan \in {SetupPlan(sql_commands, is_ceu_mode(s, query))} :
                \E fault \in {FaultOf(plan, db)} :
                    /\ ss' = [ss EXCEPT
                                 ![s].snowflake_account = hostname,
                                 ![s].step =
                                     StepAfterSetup(
                                         snowflake_setup_complete(fault))]
                    /\ run' = [session |-> s, query |-> query,
                               button |-> "btn_start_snowflake_setup",
                               hello |-> "", account |-> hostname,
                               commands |-> sql_commands, fault |-> fault,
                               log |-> SetupLog(plan, fault)]

\* "Start Setup" on step 2; the page still shows step 2 afterwards
ClickStartSetup(s) ==
    /\ ss[s].live /\ ss[s].page = 2 /\ ss[s].step = 2
    /\ \E hostname \in {hostname_of[widget[s]]},
          query \in CourseModes, snowflake_password \in Passwords :
           IF snowflake_password = ""
           THEN StartSetupNoPassword(s, hostname, query)
           ELSE StartSetupRun(s, hostname, query)
    /\ UNCHANGED <<widget, keyCache, keysMade, acctVars, sqlVars, keyVars,
                   dbVars>>

\* the run that shows step 3 storing the account of the account input, as
\* the runs that show step 2 do
ShowDownloadsStoresInput(s) ==
    /\ ss[s].live /\ ss[s].page = 2 /\ ss[s].step = 3
    /\ ss' = [ss EXCEPT ![s].page = 3,
                        ![s].snowflake_account = hostname_of[env_account]]
    /\ widget' = [widget EXCEPT ![s] = env_account]
    /\ \E query \in CourseModes :
           run' = PlainRun(s, query, "btn_goto_downloads", 3,
                           is_ceu_mode(s, query))
    /\ UNCHANGED <<keyCache, keysMade, acctVars, sqlVars, keyVars, dbVars>>

\* "Download Configuration Files" after a completed setup (any other
\* interaction has the same effect): the run shows step 3; the text input
\* is not rendered and loses its value
ShowDownloads(s) ==
    /\ ss[s].live /\ ss[s].page = 2 /\ ss[s].step = 3
    /\ ss' = [ss EXCEPT ![s].page = 3]
    /\ widget' = [widget EXCEPT ![s] = env_account]
    /\ \E query \in CourseModes :
           run' = PlainRun(s, query, "btn_goto_downloads", 3,
                           is_ceu_mode(s, query))
    /\ UNCHANGED <<keyCache, keysMade, acctVars, sqlVars, keyVars, dbVars>>

\* "Back to Snowflake Setup" that goes back to step 1
ClickBackToSnowflakeToKeys(s) ==
    /\ ss[s].live /\ ss[s].page = 3 /\ ss[s].step = 3
    /\ widget' = [widget EXCEPT ![s] = env_account]
    /\ ss' = [ss EXCEPT ![s].step = 1, ![s].page = 1]
    /\ \E query \in CourseModes :
           run' = PlainRun(s, query, "btn_back_to_snowflake", 1,
                           is_ceu_mode(s, query))
    /\ UNCHANGED <<keyCache, keysMade, acctVars, sqlVars, keyVars, dbVars>>

\* "Back to Snowflake Setup" on step 3: step = 2, and the rerun shows
\* step 2, which stores the account extracted from the (new) text input
ClickBackToSnowflake(s) ==
    /\ ss[s].live /\ ss[s].page = 3 /\ ss[s].step = 3
    /\ widget' = [widget EXCEPT ![s] = env_account]
    /\ ss' = [ss EXCEPT ![s].step = 2, ![s].page = 2,
                        ![s].snowflake_account =
                            hostname_of[env_account]]
    /\ \E query \in CourseModes :
           run' = PlainRun(s, query, "btn_back_to_snowflake", 2,
                           is_ceu_mode(s, query))
    /\ UNCHANGED <<keyCache, keysMade, acctVars, sqlVars, keyVars, dbVars>>

\* the session ends: its session state is discarded, the cache of the
\* process is not
Disconnect(s) ==
    /\ ss[s].live
    /\ ss' = [ss EXCEPT ![s] = NoSession]
    /\ widget' = [widget EXCEPT ![s] = env_account]
    /\ run' = NoRun
    /\ UNCHANGED <<keyCache, keysMade, acctVars, sqlVars, keyVars, dbVars>>

WizNext ==
    \E s \in Sessions :
        \/ Connect(s)
        \/ ClickStartProcess(s)
        \/ ClickBackToWelcome(s)
        \/ ClickContinue(s)
        \/ EditAccount(s)
        \/ ClickBackToKeys(s)
        \/ ClickStartSetup(s)
        \/ ShowDownloads(s)
        \/ ClickBackToSnowflake(s)
        \/ Disconnect(s)

SpecWizard == WizInit /\ [][WizNext]_vars

----------------------------------------------------------------------------
(* generate_keys called directly, as the tests of core/keys.py call it     *)

KeysInit ==
    /\ KeyIdle
    /\ DbIdle
    /\ WizIdle
    /\ AcctIdle
    /\ SqlIdle

\* keypair = generate_keys(passphrase)
CallGenerateKeys(passphrase) ==
    /\ keyCall' = [passphrase |-> passphrase,
                   result |-> generate_keys(passphrase)]
    /\ KeysAfterGenerate(passphrase)
    /\ UNCHANGED <<ss, widget, run, acctVars, sqlVars, dbVars>>

KeysNext == \E passphrase \in Passphrases : CallGenerateKeys(passphrase)

SpecKeys == KeysInit /\ [][KeysNext]_vars

----------------------------------------------------------------------------
(* The documents: a document is made of at most MaxSegs segments, each a   *)
(* few lines of markdown.                                                  *)

\* a named block of section a without lines
SegEmptyA ==
    <<Fence \o <<"s", "q", "l", " ", "{", "#", "a", "}">>,
      Fence>>

\* section a: two statements and a comment line
SegTwoA ==
    <<Fence \o <<"s", "q", "l", " ", "{", "#", "a", "}">>,
      <<"x", ";">>,
      <<"-", "-", "c">>,
      <<"y", ";">>,
      Fence>>

\* section b: a statement over two lines with a blank line, and one
\* without a terminator
SegMultiB ==
    <<Fence \o <<"s", "q", "l", " ", "{", "#", "b", "}">>,
      <<"x">>,
      <<>>,
      <<" ", "y", ";", "z">>,
      Fence>>

\* section a: a statement with the placeholder
SegKeyA ==
    <<Fence \o <<"s", "q", "l", " ", "{", "#", "a", "}">>,
      <<"k", "=", "'">> \o placeholder \o <<"'", ";">>,
      Fence>>

\* section b: a line with the placeholder twice, the first inside text
\* that repeats the words of the placeholder, and a statement on the line
\* that follows in the same block
SegKeyTwiceB ==
    <<Fence \o <<"s", "q", "l", " ", "{", "#", "b", "}">>,
      <<"<", "<", "A", "d", "d", " ", "Y", "o", "u", "r", " ", "P", "u", "b",
        "l", "i", "c", " ">>
      \o placeholder
      \o <<" ", "F", "i", "l", "e", "'", "s", " ", "c", "o", "n", "t", "e",
           "n", "t", " ", "h", "e", "r", "e", ">", ">", ",">>
      \o placeholder \o <<";">>,
      <<"z", ";">>,
      Fence>>

\* section b: a comment after the last statement
SegCommentB ==
    <<Fence \o <<"s", "q", "l", " ", "{", "#", "b", "}">>,
      <<"x", ";", " ", "-", "-", "c">>,
      Fence>>

\* section a: a whitespace-only line and empty fragments
SegBlankA ==
    <<Fence \o <<"s", "q", "l", " ", "{", "#", "a", "}">>,
      <<" ">>,
      <<";">>,
      <<" ", ";", "w">>,
      Fence>>

\* section b: a named block that is not closed
SegOpenB ==
    <<Fence \o <<"s", "q", "l", " ", "{", "#", "b", "}">>,
      <<"y", ";">>>>

\* a fence with another annotation
SegOther ==
    <<Fence \o <<"s", "q", "l", "i", "t", "e", " ", "{", "#", "a", "}">>,
      <<"u", ";">>,
      Fence>>

\* a fence without annotation
SegPlain ==
    <<Fence,
      <<"o", ";">>,
      Fence>>

SegNames ==
    {"SegEmptyA",
     "SegTwoA",
     "SegMultiB",
     "SegKeyA",
     "SegKeyTwiceB",
     "SegCommentB",
     "SegBlankA",
     "SegOpenB",
     "SegOther",
     "SegPlain"}

SegLines(name) ==
    CASE name = "SegEmptyA" -> SegEmptyA
      [] name = "SegTwoA" -> SegTwoA
      [] name = "SegMultiB" -> SegMultiB
      [] name = "SegKeyA" -> SegKeyA
      [] name = "SegKeyTwiceB" -> SegKeyTwiceB
      [] name = "SegCommentB" -> SegCommentB
      [] name = "SegBlankA" -> SegBlankA
      [] name = "SegOpenB" -> SegOpenB
      [] name = "SegOther" -> SegOther
      [] name = "SegPlain" -> SegPlain

SqlDocs == UNION {[1..k -> SegNames] : k \in 0..MaxSegs}

\* the lines of a document
DocLines(doc) == Concat([n \in 1..Len(doc) |-> SegLines(doc[n])])

\* the text of a document
MdText(doc) == Join(DocLines(doc), <<"\n">>)

\* the substitution values: none, empty, a word, a PEM-like text of several
\* lines that ends with a newline, a text of several lines with a blank
\* line and a fence line between two "--" lines, a text with a ';' and a
\* word of the placeholder
SqlKeys ==
    {None, <<>>, <<"v">>,
     <<"-", "-", "B", "\n", "m", "\n", "-", "-", "E", "\n">>,
     <<"-", "-", "B", "\n", "\n", Tick, Tick, Tick, "\n", "m", "\n",
       "-", "-", "E">>,
     <<"v", ";", "w">>, <<"K", "e", "y">>}

SqlInit ==
    /\ sqlDoc \in SqlDocs
    /\ sqlKey \in SqlKeys
    /\ sqlPc = "ready"
    /\ sqlResult = <<>>
    /\ AcctIdle
    /\ WizIdle
    /\ KeyIdle
    /\ DbIdle

\* sql_commands = get_sql_commands(md, public_key)
ExtractCommands ==
    /\ sqlPc = "ready"
    /\ sqlResult' = get_sql_commands(MdText(sqlDoc), sqlKey)
    /\ sqlPc' = "done"
    /\ UNCHANGED <<sqlDoc, sqlKey, acctVars, wizVars, keyVars, dbVars>>

SqlNext == ExtractCommands

SpecCommands == SqlInit /\ [][SqlNext]_vars

----------------------------------------------------------------------------
(* The account inputs: a raw input is a scheme, a body made of at most     *)
(* MaxParts pieces, an optional service domain and a path.                 *)

AcctSchemes ==
    {<<>>, HttpScheme \o <<":", "/", "/">>, HttpsScheme \o <<":", "/", "/">>,
     SnowflakeScheme \o <<":", "/", "/">>}

AcctPieces ==
    {<<"a", "1">>, <<"-">>, <<".">>, <<".", "a", "w", "s">>, <<"_">>,
     <<" ">>, <<"\n">>, <<"@">>, <<".", "b", ".", "c">>}

AcctBodies == UNION {[1..k -> AcctPieces] : k \in 0..MaxParts}

AcctDomains == {<<>>, SnowflakeDomain}

AcctPaths == {<<>>, <<"/">>, <<"/", "p", " ">>}

AcctInputs ==
    [none : {FALSE}, scheme : AcctSchemes, body : AcctBodies,
     dom : AcctDomains, path : AcctPaths]
    \cup [none : {TRUE}, scheme : {<<>>}, body : {<<>>}, dom : {<<>>},
          path : {<<>>}]

\* the text the user typed (None when there is no input)
RawText(in) ==
    IF in.none THEN None
    ELSE in.scheme \o Concat(in.body) \o in.dom \o in.path

AcctInit ==
    /\ acctRaw \in AcctInputs
    /\ acctPc = "input"
    /\ acctHost = None
    /\ acctValid = FALSE
    /\ SqlIdle
    /\ WizIdle
    /\ KeyIdle
    /\ DbIdle

\* main, step 2: hostname = extract_snowflake_account(hostname_raw);
\* account_is_valid = is_valid_snowflake_account(hostname)
ExtractAccount ==
    /\ acctPc = "input"
    /\ acctHost' = extract_snowflake_account(RawText(acctRaw))
    /\ acctValid' = is_valid_snowflake_account(acctHost')
    /\ acctPc' = "extracted"
    /\ UNCHANGED <<acctRaw, sqlVars, wizVars, keyVars, dbVars>>

\* is_valid_snowflake_account applied to the input as it is
ValidateAccount ==
    /\ acctPc = "input"
    /\ acctValid' = is_valid_snowflake_account(RawText(acctRaw))
    /\ acctPc' = "validated"
    /\ UNCHANGED <<acctRaw, acctHost, sqlVars, wizVars, keyVars, dbVars>>

\* extract_snowflake_account applied to its own result
ExtractAgain ==
    /\ acctPc = "extracted"
    /\ acctHost' = extract_snowflake_account(acctHost)
    /\ acctValid' = is_valid_snowflake_account(acctHost')
    /\ acctPc' = "extracted twice"
    /\ UNCHANGED <<acctRaw, sqlVars, wizVars, keyVars, dbVars>>

AcctNext == ExtractAccount \/ ValidateAccount \/ ExtractAgain

SpecAccount == AcctInit /\ [][AcctNext]_vars

----------------------------------------------------------------------------
(* The canonical identifier grammar, stated on the text itself:            *)
(* word or word-word, then zero or more non-empty dot-separated segments   *)
(* of letters, digits and hyphens.                                         *)

IsCanonical(s) ==
    /\ s # None
    /\ Len(s) > 0
    /\ \A i \in 1..Len(s) : s[i] \in AlnumHyphen \cup {"."}
    /\ s[1] # "." /\ s[Len(s)] # "."
    /\ \A i \in 1..(Len(s) - 1) : ~(s[i] = "." /\ s[i + 1] = ".")
    /\ LET dots == {i \in 1..Len(s) : s[i] = "."}
           first == SubSeq(s, 1, MinOf(dots \cup {Len(s) + 1}) - 1)
       IN  /\ first[1] \in Alnum /\ first[Len(first)] \in Alnum
           /\ Cardinality({i \in 1..Len(first) : first[i] = "-"}) <= 1

HttpPrefixes ==
    {HttpScheme \o <<":", "/", "/">>, HttpsScheme \o <<":", "/", "/">>}

----------------------------------------------------------------------------
(* Claims about the account normalizer and validator (SpecAccount)         *)

\* C2: a canonical identifier c followed by ".snowflakecomputing.com",
\* bare or inside an http:// or https:// URL with any path, is normalized
\* to exactly c, region/provider suffix included.
C2_DomainStripped ==
    (/\ acctPc = "extracted"
     /\ ~acctRaw.none
     /\ IsCanonical(Concat(acctRaw.body))
     /\ acctRaw.dom = SnowflakeDomain
     /\ \/ acctRaw.scheme = <<>> /\ acctRaw.path = <<>>
        \/ acctRaw.scheme \in HttpPrefixes /\ acctRaw.path # <<>>)
    => acctHost = Concat(acctRaw.body)

C2_Witness ==
    /\ acctPc = "extracted"
    /\ acctRaw.scheme = HttpsScheme \o <<":", "/", "/">>
    /\ acctRaw.body = <<(<<"a", "1">>), (<<".", "a", "w", "s">>)>>
    /\ acctRaw.dom = SnowflakeDomain
    /\ acctRaw.path = <<"/", "p", " ">>
    /\ acctHost = <<"a", "1", ".", "a", "w", "s">>

\* C3 as stated: every canonical identifier is returned unchanged.
C3_CanonicalFixedPoint ==
    (/\ acctPc = "extracted"
     /\ IsCanonical(RawText(acctRaw)))
    => acctHost = RawText(acctRaw)

\* C3, amended: every canonical identifier that does not end with
\* ".snowflakecomputing.com" is returned unchanged.
C3_CanonicalFixedPointNoDomain ==
    (/\ acctPc = "extracted"
     /\ IsCanonical(RawText(acctRaw))
     /\ ~EndsWith(RawText(acctRaw), SnowflakeDomain))
    => acctHost = RawText(acctRaw)

C3_Witness ==
    /\ acctPc = "extracted"
    /\ acctRaw.scheme = <<>> /\ acctRaw.dom = <<>> /\ acctRaw.path = <<>>
    /\ acctRaw.body = <<(<<"a", "1">>), (<<"-">>), (<<"a", "1">>)>>
    /\ acctHost = <<"a", "1", "-", "a", "1">>

\* C4: is_valid_snowflake_account(s) is true exactly when the whole of s
\* is in the language of the identifier grammar; None, empty and
\* whitespace-only input are invalid.
C4_ValidIffCanonical ==
    acctPc = "validated" => (acctValid <=> IsCanonical(RawText(acctRaw)))

\* C10: the original argument is returned as it is when it is None, empty
\* or whitespace-only, and when the trimmed, host-extracted text neither
\* ends with ".snowflakecomputing.com" nor is in the identifier grammar.
C10_PassThrough ==
    (/\ acctPc = "extracted"
     /\ \/ RawText(acctRaw) = None
        \/ Strip(RawText(acctRaw)) = <<>>
        \/ LET t == HostText(Strip(RawText(acctRaw)))
           IN  ~EndsWith(t, SnowflakeDomain) /\ ~IsCanonical(t))
    => acctHost = RawText(acctRaw)

\* the input begins with "snowflake://"
HasSnowflakeScheme ==
    ~acctRaw.none /\ acctRaw.scheme = SnowflakeScheme \o <<":", "/", "/">>

ProviderWords ==
    {<<"a", "w", "s">>, <<"g", "c", "p">>, <<"a", "z", "u", "r", "e">>}

\* plain alphanumeric words joined by two or more dots, none of them the
\* name of a cloud provider
UnstructuredDots(s) ==
    /\ s # None
    /\ Cardinality({i \in 1..Len(s) : s[i] = "."}) >= 2
    /\ LET words == Split(s, ".")
       IN  \A n \in 1..Len(words) :
               /\ words[n] # <<>>
               /\ \A i \in 1..Len(words[n]) : words[n][i] \in Alnum
               /\ words[n] \notin ProviderWords

\* C12: an identifier made of plain alphanumeric words joined by dots that
\* form no region/provider suffix, such as "invalid.account.format", is
\* reported invalid.
C12_UnstructuredDotsInvalid ==
    (acctPc = "validated" /\ UnstructuredDots(RawText(acctRaw)))
    => ~acctValid

\* C13 as stated: for every input, normalizing the normalized text leaves
\* it as it is.
C13_Idempotent ==
    [][acctPc' = "extracted twice" => acctHost' = acctHost]_vars

\* C13, amended: normalizing the normalized text leaves it as it is for
\* every input without ".snowflakecomputing.com" in it, and for every input
\* that is a canonical identifier followed by ".snowflakecomputing.com",
\* bare or after a URL prefix, with or without a path.
C13_IdempotentOnIdentifiers ==
    [][(/\ acctPc' = "extracted twice"
        /\ \/ acctRaw.dom = <<>>
           \/ IsCanonical(Concat(acctRaw.body)))
       => acctHost' = acctHost]_vars

\* "https://a1.aws.snowflakecomputing.com/" normalized twice
C13_Witness ==
    /\ acctPc = "extracted twice"
    /\ acctRaw.scheme = HttpsScheme \o <<":", "/", "/">>
    /\ acctRaw.body = <<(<<"a", "1">>), (<<".", "a", "w", "s">>)>>
    /\ acctRaw.dom = SnowflakeDomain
    /\ acctRaw.path = <<"/">>
    /\ acctHost = <<"a", "1", ".", "a", "w", "s">>

----------------------------------------------------------------------------
(* The terms of the claims about get_sql_commands, stated on the lines of  *)
(* the document: which lines open a named block, which lines lie inside    *)
(* one, which lines are kept, and the statements of a text.                *)

\* line i lies inside a named block: the nearest fence line above it is a
\* named fence that is not itself inside a block
RECURSIVE InsideAt(_, _)
InsideAt(L, i) ==
    LET fences == {j \in 1..(i - 1) : StartsWith(L[j], Fence)}
    IN  /\ fences # {}
        /\ StartsWith(L[MaxOf(fences)], NamedFence)
        /\ ~InsideAt(L, MaxOf(fences))

\* line j opens a named block
IsOpenLine(L, j) == StartsWith(L[j], NamedFence) /\ ~InsideAt(L, j)

\* the name on a named fence line: the text after "{#" up to the next "}"
NameOnFence(line) ==
    LET rest == SubSeq(line, Len(NamedFence) + 1, Len(line))
        close == {i \in 1..Len(rest) : rest[i] = "}"}
    IN  IF close = {} THEN rest ELSE SubSeq(rest, 1, MinOf(close) - 1)

\* the section of the block line i lies in
SectionOfLine(L, i) ==
    NameOnFence(L[MaxOf({j \in 1..(i - 1) : StartsWith(L[j], Fence)})])

\* line i is kept: inside a named block, not a fence, not blank and not
\* starting with "--"
IsKept(L, i) ==
    /\ InsideAt(L, i)
    /\ ~StartsWith(L[i], Fence)
    /\ \E n \in 1..Len(L[i]) : L[i][n] \notin Whitespace
    /\ ~StartsWith(L[i], <<"-", "-">>)

\* the kept lines of section k from line i on, each followed by a newline,
\* with the placeholder replaced when a substitution value is given
RECURSIVE KeptText(_, _, _, _)
KeptText(L, k, key, i) ==
    IF i > Len(L) THEN <<>>
    ELSE (IF IsKept(L, i) /\ SectionOfLine(L, i) = k
          THEN (IF key = None \/ key = <<>> THEN L[i]
                ELSE Replace(L[i], placeholder, key)) \o <<"\n">>
          ELSE <<>>)
         \o KeptText(L, k, key, i + 1)

\* the fragments of a text between its ';' characters, in order
Fragments(buf) ==
    LET semis == {i \in 1..Len(buf) : buf[i] = ";"}
        cut(m) == IF m = 0 THEN 0
                  ELSE IF m = Cardinality(semis) + 1 THEN Len(buf) + 1
                  ELSE CHOOSE i \in semis :
                           Cardinality({x \in semis : x < i}) = m - 1
    IN  [m \in 1..(Cardinality(semis) + 1) |->
            SubSeq(buf, cut(m - 1) + 1, cut(m) - 1)]

NotBlank(c) == \E n \in 1..Len(c) : c[n] \notin Whitespace

RECURSIVE TrimNewlines(_)
TrimNewlines(c) ==
    IF c # <<>> /\ Head(c) = "\n" THEN TrimNewlines(Tail(c))
    ELSE IF c # <<>> /\ c[Len(c)] = "\n"
         THEN TrimNewlines(SubSeq(c, 1, Len(c) - 1))
         ELSE c

\* the statements of a text: its non-blank fragments, newlines trimmed
ExpectedStatements(buf) ==
    LET fs == SelectSeq(Fragments(buf), NotBlank)
    IN  [m \in 1..Len(fs) |-> TrimNewlines(fs[m])]

\* all statements of a result
AllStatements(result) ==
    UNION {{result[n].v[m] : m \in 1..Len(result[n].v)} :
              n \in 1..Len(result)}

\* the statements of section k in a result
StatementsOf(result, k) ==
    UNION {{result[n].v[m] : m \in 1..Len(result[n].v)} :
              n \in {x \in 1..Len(result) : result[x].k = k}}

----------------------------------------------------------------------------
(* Claims about get_sql_commands (SpecCommands)                            *)

\* C5: the result has one entry for each section that has kept lines, and
\* the list of a section is exactly the sequence of the non-blank
\* fragments, newlines trimmed, of the ';'-split concatenation of the
\* section's kept lines (as appended, each followed by a newline).
C5_StatementSplitting ==
    sqlPc = "done" =>
        LET L == DocLines(sqlDoc)
        IN  /\ {sqlResult[n].k : n \in 1..Len(sqlResult)}
                 = {SectionOfLine(L, i) :
                       i \in {x \in 1..Len(L) : IsKept(L, x)}}
            /\ \A m, n \in 1..Len(sqlResult) :
                   sqlResult[m].k = sqlResult[n].k => m = n
            /\ \A n \in 1..Len(sqlResult) :
                   sqlResult[n].v =
                       ExpectedStatements(
                           KeptText(L, sqlResult[n].k, sqlKey, 1))

\* a block with two ';'-terminated statements and a comment line
C5_Witness ==
    /\ sqlPc = "done"
    /\ sqlDoc = <<"SegTwoA">>
    /\ sqlKey = None
    /\ sqlResult = <<[k |-> <<"a">>, v |-> <<(<<"x">>), (<<"y">>)>>]>>

\* the kept lines of the document that contain the placeholder
TokenLines(L) ==
    {i \in 1..Len(L) : IsKept(L, i) /\ Contains(L[i], placeholder)}

\* each kept line with the placeholder produced a statement of its section
\* that contains the substitution value
EveryTokenLineCarriesKey ==
    LET L == DocLines(sqlDoc)
    IN  \A i \in TokenLines(L) :
            \E c \in StatementsOf(sqlResult, SectionOfLine(L, i)) :
                Contains(c, sqlKey)

NoStatementHasToken ==
    \A c \in AllStatements(sqlResult) : ~Contains(c, placeholder)

FirstOpen(L, k) ==
    MinOf({j \in 1..Len(L) : IsOpenLine(L, j) /\ NameOnFence(L[j]) = k}
          \cup {Len(L) + 1})

\* C7: the keys of the result are in the order in which their sections
\* were first opened.
C7_SectionOrder ==
    sqlPc = "done" =>
        LET L == DocLines(sqlDoc)
        IN  \A m, n \in 1..Len(sqlResult) :
                m < n => FirstOpen(L, sqlResult[m].k)
                             < FirstOpen(L, sqlResult[n].k)

\* a statement that is nothing but a "--" line comment
IsCommentOnly(c) ==
    /\ StartsWith(Strip(c), <<"-", "-">>)
    /\ \A n \in 1..Len(Strip(c)) : Strip(c)[n] # "\n"

\* C8: every statement of the result is non-empty, not whitespace-only and
\* not just a "--" line comment.
C8_NoEmptyStatements ==
    sqlPc = "done" =>
        \A c \in AllStatements(sqlResult) :
            c # <<>> /\ NotBlank(c) /\ ~IsCommentOnly(c)

\* the document with every line outside the named blocks made empty
Blanked(L) ==
    [i \in 1..Len(L) |->
        IF InsideAt(L, i) \/ IsOpenLine(L, i) THEN L[i] ELSE <<>>]

\* C9: lines outside the named blocks contribute nothing: every key is the
\* name on a line that opens a named block, and the result is the result
\* for the document with all lines outside the named blocks, those of
\* fences with another or no annotation included, made empty.
C9_OutsideIgnored ==
    sqlPc = "done" =>
        LET L == DocLines(sqlDoc)
        IN  /\ \A n \in 1..Len(sqlResult) :
                   \E j \in 1..Len(L) :
                       IsOpenLine(L, j) /\ NameOnFence(L[j]) = sqlResult[n].k
            /\ sqlResult = get_sql_commands(Join(Blanked(L), <<"\n">>),
                                            sqlKey)

\* a named block between a fence with another annotation and a fence
\* without annotation
C9_Witness ==
    /\ sqlPc = "done"
    /\ sqlDoc = <<"SegOther", "SegTwoA", "SegPlain">>
    /\ sqlResult = <<[k |-> <<"a">>, v |-> <<(<<"x">>), (<<"y">>)>>]>>

\* the number of placeholder tokens in a text
TokenCount(text) ==
    Cardinality({i \in 0..(Len(text) - Len(placeholder)) :
                     SubSeq(text, i + 1, i + Len(placeholder)) = placeholder})

\* the number of placeholder tokens in the statements of a list
RECURSIVE TokensIn(_)
TokensIn(stmts) ==
    IF stmts = <<>> THEN 0
    ELSE TokenCount(Head(stmts)) + TokensIn(Tail(stmts))

\* C14: with None or "" as the substitution value the result is the result
\* of the extraction without a value, and every placeholder token of the
\* kept lines is in the statements of its section.
C14_NoSubstitutionWithoutValue ==
    (sqlPc = "done" /\ sqlKey \in {None, <<>>}) =>
        LET L == DocLines(sqlDoc)
        IN  /\ sqlResult = get_sql_commands(MdText(sqlDoc), None)
            /\ \A i \in TokenLines(L) :
                   \E n \in 1..Len(sqlResult) :
                       sqlResult[n].k = SectionOfLine(L, i)
            /\ \A n \in 1..Len(sqlResult) :
                   TokensIn(sqlResult[n].v) =
                       TokenCount(KeptText(L, sqlResult[n].k, None, 1))

\* the empty string as the value: the token of the line is still there
C14_Witness ==
    /\ sqlPc = "done"
    /\ sqlKey = <<>>
    /\ sqlDoc = <<"SegKeyA">>
    /\ sqlResult =
           <<[k |-> <<"a">>,
              v |-> <<(<<"k", "=", "'">> \o placeholder \o <<"'">>)>>]>>

----------------------------------------------------------------------------
(* Claims about generate_keys (SpecKeys)                                   *)

PlainPrivateBegin ==
    <<"-", "-", "-", "-", "-", "B", "E", "G", "I", "N", " ", "P", "R", "I",
      "V", "A", "T", "E", " ", "K", "E", "Y", "-", "-", "-", "-", "-",
      "\n">>

PlainPrivateEnd ==
    <<"-", "-", "-", "-", "-", "E", "N", "D", " ", "P", "R", "I", "V", "A",
      "T", "E", " ", "K", "E", "Y", "-", "-", "-", "-", "-", "\n">>

EncryptedPrivateBegin ==
    <<"-", "-", "-", "-", "-", "B", "E", "G", "I", "N", " ", "E", "N", "C",
      "R", "Y", "P", "T", "E", "D", " ", "P", "R", "I", "V", "A", "T", "E",
      " ", "K", "E", "Y", "-", "-", "-", "-", "-", "\n">>

EncryptedPrivateEnd ==
    <<"-", "-", "-", "-", "-", "E", "N", "D", " ", "E", "N", "C", "R", "Y",
      "P", "T", "E", "D", " ", "P", "R", "I", "V", "A", "T", "E", " ", "K",
      "E", "Y", "-", "-", "-", "-", "-", "\n">>

PublicBegin ==
    <<"-", "-", "-", "-", "-", "B", "E", "G", "I", "N", " ", "P", "U", "B",
      "L", "I", "C", " ", "K", "E", "Y", "-", "-", "-", "-", "-", "\n">>

PublicEnd ==
    <<"-", "-", "-", "-", "-", "E", "N", "D", " ", "P", "U", "B", "L", "I",
      "C", " ", "K", "E", "Y", "-", "-", "-", "-", "-", "\n">>

\* the text is a PEM text with the given first and last line
IsPem(text, begin, end) ==
    /\ StartsWith(text, begin)
    /\ EndsWith(text, end)
    /\ Len(text) > Len(begin) + Len(end)

\* the lines between the first and the last line of a PEM text
PemBody(text) ==
    LET lines == Split(text, "\n")
    IN  SubSeq(lines, 2, Len(lines) - 2)

\* the body of a private PEM text decrypted with a password: every
\* character moved back by the password's length
DecryptedBody(text, password) ==
    LET body == PemBody(text)
    IN  [n \in 1..Len(body) |->
            [i \in 1..Len(body[n]) |->
                Rotated(body[n][i],
                        Len(B64) - (Len(password) % Len(B64)))]]

\* C15: the KeyPair returned by generate_keys(passphrase) has the argument
\* as its passphrase; its private key is a plain "PRIVATE KEY" PEM text
\* exactly when the passphrase is empty and an "ENCRYPTED PRIVATE KEY" PEM
\* text, which the UTF-8 bytes of the passphrase decrypt to the key of the
\* public key, for every other passphrase; the public key is a plain
\* "PUBLIC KEY" PEM text.
C15_EncryptedIffPassphrase ==
    keyCall # NoCall =>
        LET k == keyCall.result
        IN  /\ k.passphrase = keyCall.passphrase
            /\ IsPem(k.private_key, PlainPrivateBegin, PlainPrivateEnd)
                   <=> keyCall.passphrase = ""
            /\ IsPem(k.private_key, EncryptedPrivateBegin,
                     EncryptedPrivateEnd)
                   <=> keyCall.passphrase # ""
            /\ IsPem(k.public_key, PublicBegin, PublicEnd)
            /\ <<DecryptedBody(k.private_key,
                               Utf8(keyCall.passphrase))[1]>>
                   = PemBody(k.public_key)

\* a call with the empty passphrase after a call with the passphrase "ue"
C15_Witness ==
    /\ keyCall.passphrase = ""
    /\ keyCall.result.id = 2
    /\ IsPem(keyCall.result.private_key, PlainPrivateBegin, PlainPrivateEnd)
    /\ keyCache["ue"].id = 1
    /\ IsPem(keyCache["ue"].private_key, EncryptedPrivateBegin,
             EncryptedPrivateEnd)

\* C16: private_key_pem_text has no newline, and with every backslash-n
\* replaced by a newline it is the private key.
C16_EscapedRoundTrip ==
    keyCall # NoCall =>
        LET k == keyCall.result
        IN  /\ \A i \in 1..Len(k.private_key_pem_text) :
                   k.private_key_pem_text[i] # "\n"
            /\ Replace(k.private_key_pem_text, <<"\\", "n">>, <<"\n">>)
                   = k.private_key

\* a private key of four lines, with an "n" at the end of a line
C16_Witness ==
    /\ keyCall.passphrase = ""
    /\ keyCall.result.id = 1
    /\ Len(Split(keyCall.result.private_key, "\n")) = 5
    /\ Contains(keyCall.result.private_key_pem_text,
                <<"n", "\\", "n">>)
    /\ Contains(keyCall.result.private_key, <<"n", "\n">>)

----------------------------------------------------------------------------
(* Claims about the wizard sessions (SpecWizard)                           *)

\* C1: key pairs are never shared between sessions: any two sessions of
\* the process that both hold a key pair hold different key pairs.
C1_KeyPairsNotShared ==
    \A s, t \in Sessions :
        (/\ s # t
         /\ ss[s].live /\ ss[s].keypair # NoKey
         /\ ss[t].live /\ ss[t].keypair # NoKey)
        => ss[s].keypair.id # ss[t].keypair.id

\* C17: the key pair of a session is set once, when step 1 is first shown,
\* and no later script run of the session replaces, changes or removes it.
C17_KeyPairSetOnce ==
    [][\A s \in Sessions :
          (ss[s].live /\ ss'[s].live) =>
              /\ ss[s].keypair # NoKey => ss'[s].keypair = ss[s].keypair
              /\ (ss[s].keypair = NoKey /\ ss'[s].keypair # NoKey)
                     => (ss[s].page = 0 /\ ss'[s].page = 1)]_vars

\* a session on the download page, after a setup, with the key pair that
\* was made first
C17_Witness ==
    /\ ss["s1"].live /\ ss["s1"].page = 3 /\ ss["s1"].step = 3
    /\ ss["s1"].keypair.id = 1
    /\ run.session = "s1"

\* the statements of a command map that a run in the given mode executes,
\* in the order of the map
RECURSIVE StatementsToRun(_, _)
StatementsToRun(commands, ceu) ==
    IF commands = <<>> THEN <<>>
    ELSE (IF Head(commands).k = "capstone_airstats" /\ ~ceu THEN <<>>
          ELSE Head(commands).v)
         \o StatementsToRun(Tail(commands), ceu)

\* the event is a statement executed or committed on the admin connection
IsStatementCall(e) == e.conn = "admin" /\ e.op \in {"execute", "commit"}

\* the script run was a setup in which every statement was executed and
\* committed, every verified table had rows, and the dbt and the preset
\* user connected and ran their statements, all without error
SetupSucceeded ==
    /\ run.session \in Sessions
    /\ run.log # <<>>
    /\ \A i \in 1..Len(run.log) : run.log[i].res = "ok"
    /\ LET ceu == ss[run.session].course_mode = "ceu"
           has(conn, op, arg) ==
               \E i \in 1..Len(run.log) :
                   /\ run.log[i].conn = conn /\ run.log[i].op = op
                   /\ run.log[i].arg = arg
           stmts == StatementsToRun(run.commands, ceu)
       IN  /\ \A n \in 1..Len(stmts) :
                  has("admin", "execute", stmts[n])
                  /\ has("admin", "commit", stmts[n])
           /\ \A n \in 1..Len(tables_to_verify) :
                  has("admin", "count", tables_to_verify[n])
           /\ ceu => \A n \in 1..Len(airstats_tables) :
                         has("admin", "count", airstats_tables[n])
           /\ has("dbt", "connect", "dbt")
           /\ has("dbt", "fetchone", "")
           /\ has("preset", "connect", "preset")
           /\ has("preset", "execute", "USE SCHEMA DEV")

\* C18: a setup run in which every statement, every table count and both
\* user verifications succeed ends with step 3 and with the key pair and
\* the account in the session state.
C18_SuccessLeadsToDownloads ==
    SetupSucceeded =>
        /\ ss[run.session].step = 3
        /\ ss[run.session].keypair # NoKey
        /\ ss[run.session].snowflake_account # Unset

\* a complete setup in CEU mode, the capstone commands included
C18_Witness ==
    /\ SetupSucceeded
    /\ ss[run.session].course_mode = "ceu"
    /\ \E n \in 1..Len(run.commands) : run.commands[n] = CapstoneCommands[1]
    /\ ss[run.session].step = 3
    /\ ss[run.session].snowflake_account = env_account

\* what the latest script run showed and did, read against the stored
\* course mode of its session: the welcome text, the capstone commands and
\* the AIRSTATS counts
CeuByStoredMode ==
    run.session \in Sessions =>
        LET ceu == ss[run.session].course_mode = "ceu"
            log == run.log
            counted(t) == \E i \in 1..Len(log) :
                              log[i].op = "count" /\ log[i].arg = t
                                  /\ log[i].res = "ok"
        IN  /\ ss[run.session].page = 0 =>
                   run.hello = (IF ceu THEN "hello_msg_ceu"
                                ELSE "hello_msg_default")
            /\ (\E n \in 1..Len(run.commands) :
                    run.commands[n] = CapstoneCommands[1]) => ceu
            /\ \A i \in 1..Len(log) :
                   (\/ log[i].op = "section"
                          /\ log[i].arg = "capstone_airstats"
                    \/ log[i].op = "count"
                          /\ log[i].arg \in
                                 {airstats_tables[n] :
                                      n \in 1..Len(airstats_tables)})
                   => ceu
            /\ (ceu /\ \A n \in 1..Len(tables_to_verify) :
                           counted(tables_to_verify[n]))
                   => \E i \in 1..Len(log) :
                          log[i].op = "count"
                              /\ log[i].arg = airstats_tables[1]

\* C19: the course mode of a session is the query parameter of its first
\* script run and no later run changes it, whatever the query parameter
\* of that run is; the CEU welcome text, capstone commands and AIRSTATS
\* counts follow the stored mode only.
C19_CourseModeFixed ==
    [][/\ \A s \in Sessions :
              /\ (ss[s].live /\ ss'[s].live)
                     => ss'[s].course_mode = ss[s].course_mode
              /\ (~ss[s].live /\ ss'[s].live)
                     => ss'[s].course_mode = run'.query
       /\ CeuByStoredMode']_vars

\* a setup of a CEU session, run with the query parameter "default",
\* counts the AIRSTATS tables
C19_Witness ==
    /\ run.session \in Sessions
    /\ ss[run.session].course_mode = "ceu"
    /\ run.query = "default"
    /\ \E i \in 1..Len(run.log) :
           run.log[i].op = "count" /\ run.log[i].arg = airstats_tables[3]

\* C20: the statements go to the database one at a time, in the order of
\* the command map and of each section: the executes and commits of a run
\* are execute 1, commit 1, execute 2, commit 2, ..., each issued only
\* after the one before it has returned without error, and all of them
\* have been issued once the run reaches the table counts.
C20_SequentialExecution ==
    run.session \in Sessions =>
        LET stmts == StatementsToRun(run.commands,
                                     ss[run.session].course_mode = "ceu")
            calls == SelectSeq(run.log, IsStatementCall)
        IN  /\ Len(calls) <= 2 * Len(stmts)
            /\ \A i \in 1..Len(calls) :
                   /\ calls[i].arg = stmts[(i + 1) \div 2]
                   /\ calls[i].op =
                          (IF i % 2 = 1 THEN "execute" ELSE "commit")
                   /\ i < Len(calls) => calls[i].res = "ok"
            /\ (\E i \in 1..Len(run.log) : run.log[i].op = "count")
                   => Len(calls) = 2 * Len(stmts)

\* a run that executes and commits three statements of two sections and
\* then fails at a table count
C20_Witness ==
    /\ run.session \in Sessions
    /\ Len(SelectSeq(run.log, IsStatementCall)) = 6
    /\ run.commands[2].k = "snowflake_import"
    /\ run.fault.how = "error"
    /\ \E i \in 1..Len(run.log) :
           run.log[i].op = "count" /\ run.log[i].res = "error"

\* the calls a run makes to the database or to the lookup of a section
DatabaseOps == {"section", "connect", "execute", "commit", "count", "fetchone"}

\* C21: when the execute or the commit of a statement raises, the error is
\* shown, no statement, table count or user verification follows it in
\* the run, and the step of the session stays 2.
C21_StopOnFirstFailure ==
    run.session \in Sessions =>
        \A i \in 1..Len(run.log) :
            (IsStatementCall(run.log[i]) /\ run.log[i].res = "error") =>
                /\ \E j \in (i + 1)..Len(run.log) :
                       run.log[j].op = "st.error" /\ run.log[j].res = "shown"
                /\ \A j \in (i + 1)..Len(run.log) :
                       run.log[j].op \notin DatabaseOps
                /\ ss[run.session].step = 2

\* the commit of the third statement raises after two statements of the
\* first section went through
C21_Witness ==
    /\ run.session \in Sessions
    /\ \E i \in 1..Len(run.log) :
           /\ run.log[i].op = "commit" /\ run.log[i].arg = "c3"
           /\ run.log[i].res = "error"
    /\ \E i \in 1..Len(run.log) :
           /\ run.log[i].op = "commit" /\ run.log[i].arg = "c2"
           /\ run.log[i].res = "ok"
    /\ ss[run.session].step = 2

\* C22: every connection a setup run opens, the admin connection and the
\* connections of the dbt and the preset user, is closed and its engine
\* disposed later in the same run, whichever way the run ends.
C22_AlwaysDisconnects ==
    run.session \in Sessions =>
        \A i \in 1..Len(run.log) :
            (run.log[i].op = "connect" /\ run.log[i].res = "ok") =>
                \E j \in (i + 1)..Len(run.log) :
                    /\ run.log[j].conn = run.log[i].conn
                    /\ run.log[j].op = "close"
                    /\ \E k \in (j + 1)..Len(run.log) :
                           /\ run.log[k].conn = run.log[i].conn
                           /\ run.log[k].op = "dispose"

\* the query of the dbt user raises: the connection of the dbt user and
\* the admin connection were open and are closed
C22_Witness ==
    /\ run.session \in Sessions
    /\ \E i \in 1..Len(run.log) :
           /\ run.log[i].conn = "dbt" /\ run.log[i].op = "fetchone"
           /\ run.log[i].res = "error"
    /\ \E i, j \in 1..Len(run.log) :
           /\ run.log[i].conn = "dbt" /\ run.log[i].op = "dispose"
           /\ run.log[j].conn = "admin" /\ run.log[j].op = "dispose"
           /\ i < j

\* the changes of step: from, to, and the key of the button whose click
\* starts the script run that makes the change
StepTransitions ==
    {<<0, 1, "btn_start_setup">>,
     <<1, 0, "btn_back_to_welcome">>,
     <<1, 2, "btn_continue_to_snowflake">>,
     <<2, 1, "btn_back_to_keys">>,
     <<2, 3, "btn_start_snowflake_setup">>,
     <<3, 2, "btn_back_to_snowflake">>}

\* C23: the step of a session is one of 0, 1, 2, 3, it is 0 when the
\* session starts, and it changes only in a script run of the session
\* started by a click on a button, along one of the transitions 0->1,
\* 1->0, 1->2, 2->1, 2->3, 3->2 with the button of that transition.
C23_StepTransitions ==
    [][\A s \in Sessions :
          /\ ss'[s].live => ss'[s].step \in 0..3
          /\ (~ss[s].live /\ ss'[s].live) => ss'[s].step = 0
          /\ (ss[s].live /\ ss'[s].live /\ ss'[s].step # ss[s].step) =>
                 /\ run'.session = s
                 /\ <<ss[s].step, ss'[s].step, run'.button>>
                        \in StepTransitions]_vars

\* a session back on step 2 from the download step
C23_Witness ==
    /\ run.session \in Sessions
    /\ run.button = "btn_back_to_snowflake"
    /\ ss[run.session].step = 2
    /\ ss[run.session].page = 2

\* the script run opened the admin connection
AdminConnected ==
    \E i \in 1..Len(run.log) :
        /\ run.log[i].conn = "admin" /\ run.log[i].op = "connect"
        /\ run.log[i].res = "ok"

\* C24: the step of a session becomes 3 only in a Start Setup run of the
\* session that connected, executed and committed every statement, found
\* rows in every verified table and verified both users; so a session
\* with step 3 has completed such a run, and no failing run and no
\* navigation sets step to 3.
C24_DownloadsOnlyAfterSuccess ==
    [][\A s \in Sessions :
          (/\ ss'[s].live /\ ss'[s].step = 3
           /\ ~(ss[s].live /\ ss[s].step = 3)) =>
              /\ run'.session = s
              /\ run'.button = "btn_start_snowflake_setup"
              /\ AdminConnected'
              /\ SetupSucceeded']_vars

\* one session has completed the setup, the other was stopped for a
\* missing password
C24_Witness ==
    /\ ss["s1"].live /\ ss["s1"].step = 3
    /\ run.session = "s2"
    /\ run.fault = NoPassword
    /\ ss["s2"].step = 2

\* C25: a session with step 2 or 3 has a key pair in its session state,
\* and a session with step 3 has a key pair and an account, so that the
\* reads of keypair at Start Setup and of keypair and snowflake_account on
\* step 3 find them.
C25_SessionDataPresent ==
    \A s \in Sessions :
        ss[s].live =>
            /\ ss[s].step >= 2 => ss[s].keypair # NoKey
            /\ ss[s].step = 3 =>
                   (ss[s].keypair # NoKey /\ ss[s].snowflake_account # Unset)

\* a session that has just continued to step 2: the key pair of step 1 and
\* the account of the default input are stored
C25_Witness ==
    /\ run.session \in Sessions
    /\ run.button = "btn_continue_to_snowflake"
    /\ ss[run.session].step = 2
    /\ ss[run.session].keypair.id = 1
    /\ ss[run.session].snowflake_account = env_account

\* C26: the account stored in a session with step 3 is the account that
\* its latest completed setup run connected with: the run that sets step
\* to 3 stores the account it connected with, and no run changes the
\* stored account while step stays 3.
C26_AccountOfTheSetup ==
    [][\A s \in Sessions :
          (ss'[s].live /\ ss'[s].step = 3) =>
              IF ss[s].live /\ ss[s].step = 3
              THEN ss'[s].snowflake_account = ss[s].snowflake_account
              ELSE /\ run'.session = s
                   /\ AdminConnected'
                   /\ ss'[s].snowflake_account = run'.account]_vars

\* the download step of a session that was set up with the account "a 1"
\* taken from a host name; the account input is back at its default
C26_Witness ==
    /\ run.session \in Sessions
    /\ ss[run.session].step = 3
    /\ ss[run.session].page = 3
    /\ ss[run.session].snowflake_account = <<"a", " ", "1">>
    /\ widget[run.session] = env_account

\* the script run tried to open the admin connection
AdminConnectTried ==
    \E i \in 1..Len(run.log) :
        run.log[i].conn = "admin" /\ run.log[i].op = "connect"

\* C27: a Start Setup run that opens, or tries to open, the admin
\* connection does so with an account that is_valid_snowflake_account
\* accepts.
C27_ConnectsOnlyValidAccount ==
    (run.session \in Sessions /\ AdminConnectTried)
        => is_valid_snowflake_account(run.account)

\* the event is an exception raised in the execution and verification
\* phase: by the lookup of a section, by a statement or by a table count
IsExecutionError(e) ==
    /\ e.res = "error"
    /\ \/ e.op = "section"
       \/ e.conn = "admin" /\ e.op \in {"execute", "commit", "count"}

\* C30: every exception raised in the execution and verification phase of
\* a setup run, also one raised before any statement was executed, is
\* reported with an error message by a handler that raises nothing itself,
\* and the run ends with the admin connection closed and step unchanged.
C30_HandlerNeverFails ==
    run.session \in Sessions =>
        \A i \in 1..Len(run.log) :
            IsExecutionError(run.log[i]) =>
                /\ \E j \in (i + 1)..Len(run.log) :
                       run.log[j].op = "st.error" /\ run.log[j].res = "shown"
                /\ \A j \in 1..Len(run.log) :
                       run.log[j].res # "UnboundLocalError"
                /\ ~IsOpen(run.log, "admin")
                /\ ss[run.session].step = 2

\* the grammar step of extract_snowflake_account decides the result for
\* the trimmed input t: t is not empty, the service-domain pattern does
\* not match the host text and the account pattern does
GrammarStepTaken(t) ==
    /\ t # <<>>
    /\ DomainMatch(HostText(t)) = {}
    /\ AccountMatch(HostText(t)) # {}

ValueCount(text, value) ==
    Cardinality({i \in 0..(Len(text) - Len(value)) :
                     SubSeq(text, i + 1, i + Len(value)) = value})

\* the number of places where the value starts in the statements of a list
RECURSIVE ValuesIn(_, _)
ValuesIn(stmts, value) ==
    IF stmts = <<>> THEN 0
    ELSE ValueCount(Head(stmts), value) + ValuesIn(Tail(stmts), value)

\* the kept document lines, decided on the raw lines, make the result; each
\* placeholder token of a kept line of a section put the whole value into
\* a statement of that section
ValueWholeAndBlockOpen ==
    LET L == DocLines(sqlDoc)
    IN  /\ {sqlResult[n].k : n \in 1..Len(sqlResult)}
             = {SectionOfLine(L, i) :
                   i \in {x \in 1..Len(L) : IsKept(L, x)}}
        /\ \A n \in 1..Len(sqlResult) :
               /\ sqlResult[n].v =
                      ExpectedStatements(
                          KeptText(L, sqlResult[n].k, sqlKey, 1))
               /\ ValuesIn(sqlResult[n].v, sqlKey) >=
                      TokenCount(KeptText(L, sqlResult[n].k, None, 1))

SpansLinesNoSemicolon(value) ==
    /\ value # None
    /\ \E n \in 1..Len(value) : value[n] = "\n"
    /\ \A n \in 1..Len(value) : value[n] # ";"

\* C29 as stated: for every substitution value V of several lines without
\* a ';', the skip and fence tests are applied to the raw document lines
\* only, the lines after a placeholder line are still taken from the open
\* block, and every placeholder token of a kept line put all of V,
\* unchanged and contiguous, into a statement of its section.
C29_SubstitutedNotRescanned ==
    (sqlPc = "done" /\ SpansLinesNoSemicolon(sqlKey))
    => ValueWholeAndBlockOpen

\* C29, amended: the same for every V of several lines without a ';' that
\* neither begins nor ends with a newline and has a character that is not
\* whitespace.
C29_SubstitutedNotRescannedInner ==
    (/\ sqlPc = "done"
     /\ SpansLinesNoSemicolon(sqlKey)
     /\ sqlKey[1] # "\n"
     /\ sqlKey[Len(sqlKey)] # "\n"
     /\ NotBlank(sqlKey))
    => ValueWholeAndBlockOpen

\* a value with a blank line, a fence line and "--" lines, put twice into
\* one statement; the statement of the next line of the block follows
C29_Witness ==
    LET V == <<"-", "-", "B", "\n", "\n", Tick, Tick, Tick, "\n", "m", "\n",
               "-", "-", "E">>
    IN  /\ sqlPc = "done"
        /\ sqlKey = V
        /\ sqlDoc = <<"SegKeyTwiceB">>
        /\ Len(sqlResult) = 1
        /\ sqlResult[1].k = <<"b">>
        /\ Len(sqlResult[1].v) = 2
        /\ ValueCount(sqlResult[1].v[1], V) = 2
        /\ sqlResult[1].v[2] = <<"z">>

====
